---- MODULE Spec2Model ----
(***************************************************************************)
(* LRU-K replacer of mini-btree (code/src/buffer/lru_k_replacer.rs).       *)
(*                                                                         *)
(* The replacer is a single-threaded object (spec section 5): every public *)
(* method is one atomic action.  The u64 logical clock is modelled with a  *)
(* reduced width, fixed per behaviour: either narrow (largest value        *)
(* U64_MAX, so that the overflow branch of record_access is reached) or    *)
(* wide enough that the MaxCalls calls of a behaviour never overflow it.   *)
(***************************************************************************)
EXTENDS Integers, Sequences, FiniteSets, TLC

\* ------------------------------------------------------------------ bounds
\* Largest frame id a caller passes (frame ids are 0..MaxFrameId).
MaxFrameId == 1
\* Largest capacity handed to new().
MaxCapacity == 2
\* Largest k handed to new().
MaxK == 2
\* Largest value of the narrow clock; the next bump resets it to 0.
U64_MAX == 2
\* Number of record_access calls explored in one behaviour.
MaxCalls == 4

FrameIds == 0..MaxFrameId

\* The clock widths explored: the narrow one, and one no behaviour overflows.
ClockMaxima == {U64_MAX, U64_MAX + MaxCalls}

\* Option<T> is a sequence of length 0 (None) or 1 (Some(x)).
None == <<>>
Some(x) == <<x>>
IsSome(o) == Len(o) = 1
Unwrap(o) == o[1]
UnwrapOr(o, d) == IF IsSome(o) THEN o[1] ELSE d

VARIABLES
    current_size,       \* LRUKReplacer.current_size
    capacity,           \* LRUKReplacer.capacity
    k,                  \* LRUKReplacer.k
    node_store,         \* LRUKReplacer.node_store : tracked frame id -> LRUKNode
    current_timestamp,  \* LRUKReplacer.current_timestamp
    u64_max,            \* u64::MAX of this behaviour's (reduced-width) clock
    panicked,           \* a debug assertion or an arithmetic check has failed
    calls,              \* history variable: number of record_access calls so far
    access_no,          \* history variable: frame id -> call numbers of the kept accesses
    life,               \* history variable: frame id -> what its caller last did to it
    drain_store,        \* history variable: node_store when the current run of evict calls began
    drained,            \* history variable: what the evict calls of the current run returned
    pre,                \* history variable: the replacer as it was before the last call
    ret                 \* the last call: method, arguments and result

vars == <<current_size, capacity, k, node_store, current_timestamp, u64_max, panicked,
          calls, access_no, life, drain_store, drained, pre, ret>>

\* ---------------------------------------------------------------- LRUKNode
\* LRUKNode::new handing out a node that is evictable from the start
NodeNewEvictable(kk) == [k |-> kk, history |-> <<>>, is_evictable |-> TRUE]

\* LRUKNode::new
NodeNew(kk) == [k |-> kk, history |-> <<>>, is_evictable |-> FALSE]

\* LRUKNode::record_access dropping the oldest one access too late
NodeRecordAccessLate(node, ts) ==
    LET h == IF Len(node.history) > node.k THEN Tail(node.history) ELSE node.history
    IN  [node EXCEPT !.history = Append(h, ts)]

\* LRUKNode::record_access putting the new timestamp in front
NodeRecordAccessFront(node, ts) ==
    LET h == IF Len(node.history) = node.k
             THEN SubSeq(node.history, 1, Len(node.history) - 1) ELSE node.history
    IN  [node EXCEPT !.history = <<ts>> \o h]

\* LRUKNode::record_access: drop the oldest once k are kept, then push back.
NodeRecordAccess(node, ts) ==
    LET h == IF Len(node.history) = node.k THEN Tail(node.history) ELSE node.history
    IN  [node EXCEPT !.history = Append(h, ts)]

\* LRUKNode::last_ts
last_ts(node) ==
    IF Len(node.history) = 0 THEN None ELSE Some(node.history[Len(node.history)])

\* kth_ts handing out the most recent timestamp instead of the K-th most recent
kth_ts_back(node) ==
    IF Len(node.history) = node.k THEN Some(node.history[Len(node.history)]) ELSE None

\* LRUKNode::kth_ts
kth_ts(node) ==
    IF Len(node.history) = node.k THEN Some(Head(node.history)) ELSE None

\* ------------------------------------------------------------ LRUKReplacer
\* node_store.values().filter(|n| n.is_evictable).count()
CountEvictableScan(store) == Cardinality({f \in DOMAIN store : store[f].is_evictable})

\* current_timestamp.checked_add(1), reset to 0 on overflow
BumpTimestamp(ts) == IF ts + 1 <= u64_max THEN ts + 1 ELSE 0

\* the result of one method on the fields it may change
Outcome(store, size, now, pan, res) ==
    [node_store |-> store, current_size |-> size, current_timestamp |-> now,
     panicked |-> pan, res |-> res]

\* AtCapacity with the comparison off by one
AtCapacityOffByOne(store, cap) == Cardinality(DOMAIN store) > cap

\* node_store.len() >= capacity
AtCapacity(store, cap) == Cardinality(DOMAIN store) >= cap

\* record_access inserting the new node before it looks at the capacity
record_access_insert_first(store, size, now, cap, kk, frame_id) ==
    LET next == BumpTimestamp(now)
        store2 == [f \in DOMAIN store \cup {frame_id} |->
                     IF f \in DOMAIN store THEN store[f] ELSE NodeNew(kk)]
        store3 == [store2 EXCEPT ![frame_id] = NodeRecordAccess(@, next)]
    IN  IF frame_id \notin DOMAIN store /\ AtCapacity(store, cap)
        THEN Outcome(store3, size, next, FALSE, "ErrCapacity")
        ELSE Outcome(store3, size, next, FALSE, "Ok")

\* record_access looking at the capacity before it looks the frame up
record_access_check_first(store, size, now, cap, kk, frame_id) ==
    LET next == BumpTimestamp(now) IN
    IF AtCapacity(store, cap)
    THEN Outcome(store, size, next, FALSE, "ErrCapacity")
    ELSE Outcome([f \in DOMAIN store \cup {frame_id} |->
                     IF f = frame_id
                     THEN NodeRecordAccess(IF f \in DOMAIN store THEN store[f]
                                           ELSE NodeNew(kk), next)
                     ELSE store[f]],
                 size, next, FALSE, "Ok")

\* record_access advancing the clock only when it creates a node
record_access_bump_on_create_only(store, size, now, cap, kk, frame_id) ==
    IF frame_id \in DOMAIN store
    THEN Outcome([store EXCEPT ![frame_id] = NodeRecordAccess(@, now)],
                 size, now, FALSE, "Ok")
    ELSE IF AtCapacity(store, cap)
    THEN Outcome(store, size, now, FALSE, "ErrCapacity")
    ELSE Outcome([f \in DOMAIN store \cup {frame_id} |->
                     IF f = frame_id THEN NodeRecordAccess(NodeNew(kk), BumpTimestamp(now))
                     ELSE store[f]],
                 size, BumpTimestamp(now), FALSE, "Ok")

\* LRUKReplacer::record_access
record_access(store, size, now, cap, kk, frame_id) ==
    LET next == BumpTimestamp(now) IN
    IF frame_id \in DOMAIN store
    THEN Outcome([store EXCEPT ![frame_id] = NodeRecordAccess(@, next)],
                 size, next, FALSE, "Ok")
    ELSE IF AtCapacity(store, cap)
    THEN Outcome(store, size, next, FALSE, "ErrCapacity")
    ELSE Outcome([f \in DOMAIN store \cup {frame_id} |->
                     IF f = frame_id THEN NodeRecordAccess(NodeNew(kk), next)
                     ELSE store[f]],
                 size, next, FALSE, "Ok")

\* SizeAfterFlag counting every call, whatever the flag was before
SizeAfterFlagIgnoringWas(size, was, flag) == IF flag THEN size + 1 ELSE size - 1

\* the match (was, set_evictable) of set_evictable
SizeAfterFlag(size, was, flag) ==
    IF ~was /\ flag THEN size + 1
    ELSE IF was /\ ~flag THEN size - 1
    ELSE size

\* set_evictable counting a frame it does not find
set_evictable_counts_missing(store, size, now, frame_id, flag) ==
    IF frame_id \notin DOMAIN store
    THEN Outcome(store, IF flag THEN size + 1 ELSE size, now, FALSE, "ErrNotFound")
    ELSE LET was == store[frame_id].is_evictable
             store2 == [store EXCEPT ![frame_id].is_evictable = flag]
         IN  Outcome(store2, SizeAfterFlag(size, was, flag), now, FALSE, "Ok")

\* set_evictable flipping the flag instead of storing the one it is given
set_evictable_toggle(store, size, now, frame_id, flag) ==
    IF frame_id \notin DOMAIN store
    THEN Outcome(store, size, now, FALSE, "ErrNotFound")
    ELSE LET was == store[frame_id].is_evictable
             store2 == [store EXCEPT ![frame_id].is_evictable = ~was]
         IN  Outcome(store2, SizeAfterFlag(size, was, ~was), now, FALSE, "Ok")

\* LRUKReplacer::set_evictable
set_evictable(store, size, now, frame_id, flag) ==
    IF frame_id \notin DOMAIN store
    THEN Outcome(store, size, now, FALSE, "ErrNotFound")
    ELSE LET was == store[frame_id].is_evictable
             store2 == [store EXCEPT ![frame_id].is_evictable = flag]
             size2 == SizeAfterFlag(size, was, flag)
         IN  IF size2 < 0
             THEN Outcome(store2, size, now, TRUE, "Panic")
             ELSE IF size2 # CountEvictableScan(store2)
             THEN Outcome(store2, size2, now, TRUE, "Panic")
             ELSE Outcome(store2, size2, now, FALSE, "Ok")

\* remove taking a pinned frame out as if it were evictable
remove_ignoring_pin(store, size, now, frame_id) ==
    IF frame_id \notin DOMAIN store
    THEN Outcome(store, size, now, FALSE, "Ok")
    ELSE LET node == store[frame_id]
             store2 == [f \in DOMAIN store \ {frame_id} |-> store[f]]
             size2 == IF node.is_evictable THEN size - 1 ELSE size
         IN  Outcome(store2, size2, now, FALSE, "Ok")

\* remove reporting an untracked frame as an error
remove_missing_is_error(store, size, now, frame_id) ==
    IF frame_id \notin DOMAIN store
    THEN Outcome(store, size, now, FALSE, "ErrNotFound")
    ELSE IF ~store[frame_id].is_evictable
    THEN Outcome(store, size, now, FALSE, "ErrNotEvictable")
    ELSE LET node == store[frame_id]
             store2 == [f \in DOMAIN store \ {frame_id} |-> store[f]]
             size2 == IF node.is_evictable THEN size - 1 ELSE size
         IN  Outcome(store2, size2, now, FALSE, "Ok")

\* the `if node.is_evictable { current_size -= 1 }` of remove
SizeAfterRemove(size, node) == IF node.is_evictable THEN size - 1 ELSE size

\* LRUKReplacer::remove
remove(store, size, now, frame_id) ==
    IF frame_id \notin DOMAIN store
    THEN Outcome(store, size, now, FALSE, "Ok")
    ELSE IF ~store[frame_id].is_evictable
    THEN Outcome(store, size, now, FALSE, "ErrNotEvictable")
    ELSE LET node == store[frame_id]
             store2 == [f \in DOMAIN store \ {frame_id} |-> store[f]]
             size2 == SizeAfterRemove(size, node)
         IN  IF size2 < 0
             THEN Outcome(store2, size, now, TRUE, "Panic")
             ELSE IF size2 # CountEvictableScan(store2)
             THEN Outcome(store2, size2, now, TRUE, "Panic")
             ELSE Outcome(store2, size2, now, FALSE, "Ok")

\* (self.current_timestamp as u128).saturating_sub(kth as u128)
SaturatingSub(a, b) == IF a >= b THEN a - b ELSE 0

\* u128::MAX: strictly above every value of the clock's type
U128_MAX == (u64_max + 1) * (u64_max + 1) - 1

\* KDist without the sentinel: the distance to the oldest kept timestamp
KDistNoSentinel(node, now) ==
    IF Len(node.history) > 0 THEN SaturatingSub(now, Head(node.history)) ELSE U128_MAX

\* the k_dist of evict's key
KDist(node, now) ==
    IF IsSome(kth_ts(node)) THEN SaturatingSub(now, Unwrap(kth_ts(node))) ELSE U128_MAX

\* the Key evict builds for one node
KeyOf(frame_id, node, now) ==
    [k_dist |-> KDist(node, now), last_ts |-> UnwrapOr(last_ts(node), 0),
     frame_id |-> frame_id]

\* better with the newer most-recent access winning
better_newer_first(a, b) ==
    IF a.k_dist > b.k_dist THEN TRUE
    ELSE IF a.k_dist < b.k_dist THEN FALSE
    ELSE IF a.last_ts > b.last_ts THEN TRUE
    ELSE IF a.last_ts < b.last_ts THEN FALSE
    ELSE a.frame_id < b.frame_id

\* better with the larger frame id winning the last tie
better_larger_id_first(a, b) ==
    IF a.k_dist > b.k_dist THEN TRUE
    ELSE IF a.k_dist < b.k_dist THEN FALSE
    ELSE IF a.last_ts < b.last_ts THEN TRUE
    ELSE IF a.last_ts > b.last_ts THEN FALSE
    ELSE a.frame_id > b.frame_id

\* better without the frame id as the last tie-break
better_ignoring_id(a, b) ==
    IF a.k_dist > b.k_dist THEN TRUE
    ELSE IF a.k_dist < b.k_dist THEN FALSE
    ELSE IF a.last_ts < b.last_ts THEN TRUE
    ELSE FALSE

\* evict::better
better(a, b) ==
    IF a.k_dist > b.k_dist THEN TRUE
    ELSE IF a.k_dist < b.k_dist THEN FALSE
    ELSE IF a.last_ts < b.last_ts THEN TRUE
    ELSE IF a.last_ts > b.last_ts THEN FALSE
    ELSE a.frame_id < b.frame_id

\* ScanStep without the `continue` on a pinned node
ScanStepNoPinCheck(best, frame_id, node, now) ==
    LET key == KeyOf(frame_id, node, now) IN
    IF IsSome(best)
    THEN IF better(key, Unwrap(best)[1]) THEN Some(<<key, frame_id>>) ELSE best
    ELSE Some(<<key, frame_id>>)

\* ScanStep without the `else` that takes the first candidate
ScanStepNeverSeeds(best, frame_id, node, now) ==
    IF ~node.is_evictable THEN best
    ELSE LET key == KeyOf(frame_id, node, now) IN
         IF IsSome(best)
         THEN IF better(key, Unwrap(best)[1]) THEN Some(<<key, frame_id>>) ELSE best
         ELSE best

\* one iteration of evict's loop over node_store.iter()
ScanStep(best, frame_id, node, now) ==
    IF ~node.is_evictable THEN best
    ELSE LET key == KeyOf(frame_id, node, now) IN
         IF IsSome(best)
         THEN IF better(key, Unwrap(best)[1]) THEN Some(<<key, frame_id>>) ELSE best
         ELSE Some(<<key, frame_id>>)

\* evict's loop over node_store.iter(): a HashMap hands out its entries in an
\* unspecified order, so the loop may visit the frames still `todo` in any
\* order; the set of values `best` can hold when the loop ends
RECURSIVE Scan(_, _, _, _)
Scan(todo, store, now, best) ==
    IF todo = {} THEN {best}
    ELSE UNION {Scan(todo \ {f}, store, now, ScanStep(best, f, store[f], now)) : f \in todo}

\* evict returning its victim without taking it out of the registry
evict_keeps_victim(store, size, now, best) ==
    IF IsSome(best)
    THEN Outcome(store, size, now, FALSE, Some(Unwrap(best)[2]))
    ELSE Outcome(store, size, now, FALSE, None)

\* evict dropping its victim's entry without going through remove's accounting
evict_keeps_count(store, size, now, best) ==
    IF IsSome(best)
    THEN Outcome([f \in DOMAIN store \ {Unwrap(best)[2]} |-> store[f]], size, now, FALSE,
                 Some(Unwrap(best)[2]))
    ELSE Outcome(store, size, now, FALSE, None)

\* LRUKReplacer::evict, `best` being what its loop found
evict(store, size, now, best) ==
    IF IsSome(best)
    THEN LET victim == Unwrap(best)[2]
             r == remove(store, size, now, victim)
         IN  Outcome(r.node_store, r.current_size, r.current_timestamp, r.panicked,
                     Some(victim))
    ELSE Outcome(store, size, now, FALSE, None)

\* ------------------------------------------------------- history variables
NoFrame == 0 - 1

\* the record of one call: its method, its arguments, the kind of its result
\* ("Ok", "Err...", "Some", "None", "Panic"), the number it returned, if any,
\* and the life, before the call, of the frame it was given or has returned
Call(op, frame_id, flag, res, value, was) ==
    [op |-> op, frame_id |-> frame_id, flag |-> flag, res |-> res, value |-> value,
     was |-> was]

\* the call numbers kept for a frame: the last kk of them
KeepLast(s, kk) == IF Len(s) > kk THEN SubSeq(s, Len(s) - kk + 1, Len(s)) ELSE s

\* the replacer's fields and the history of its frames, as one value
Snapshot == [node_store |-> node_store, current_size |-> current_size,
             current_timestamp |-> current_timestamp, access_no |-> access_no]

\* a frame's life: "untracked", then "recorded" by the record_access that
\* creates it, then "released" while the caller's last set_evictable(id, _)
\* said true, and "recorded" again once it said false; "gone" once remove or
\* evict has taken it out, until a record_access creates it again
NoLife == [f \in FrameIds |-> "untracked"]

\* the lives of the frames after a removal that left `store`
Retire(l, store) ==
    [g \in FrameIds |-> IF g \in DOMAIN store THEN l[g]
                        ELSE IF l[g] = "untracked" THEN "untracked" ELSE "gone"]

\* the history of the frames that are tracked in `store`, forgotten for the others
Forget(h, store, none) == [g \in FrameIds |-> IF g \in DOMAIN store THEN h[g] ELSE none]

\* what a run of evict calls has returned, a repeated None being kept once
Drained(d, value) ==
    IF value = NoFrame /\ Len(d) > 0 /\ d[Len(d)] = NoFrame THEN d ELSE Append(d, value)

\* ------------------------------------------------------------------ actions
Apply(r) ==
    /\ node_store' = r.node_store
    /\ current_size' = r.current_size
    /\ current_timestamp' = r.current_timestamp
    /\ panicked' = r.panicked
    /\ pre' = Snapshot
    /\ UNCHANGED <<capacity, k, u64_max>>

\* LRUKReplacer::new(capacity, k): both asserted >= 1
Init ==
    /\ capacity \in 1..MaxCapacity
    /\ k \in 1..MaxK
    /\ current_size = 0
    /\ node_store = <<>>
    /\ current_timestamp = 0
    /\ u64_max \in ClockMaxima
    /\ panicked = FALSE
    /\ calls = 0
    /\ access_no = [f \in FrameIds |-> <<>>]
    /\ life = NoLife
    /\ drain_store = <<>>
    /\ drained = <<>>
    /\ pre = [node_store |-> <<>>, current_size |-> 0, current_timestamp |-> 0,
              access_no |-> [f \in FrameIds |-> <<>>]]
    /\ ret = Call("new", NoFrame, FALSE, "Ok", NoFrame, "none")

RecordAccess ==
    \E f \in FrameIds :
        /\ ~panicked
        /\ calls < MaxCalls
        /\ \E r \in {record_access(node_store, current_size, current_timestamp,
                                   capacity, k, f)} :
               /\ Apply(r)
               /\ ret' = Call("record_access", f, FALSE, r.res, NoFrame, life[f])
               /\ calls' = calls + 1
               /\ access_no' =
                    IF r.res = "Ok"
                    THEN [access_no EXCEPT ![f] =
                            IF f \in DOMAIN node_store
                            THEN KeepLast(Append(@, calls + 1), k)
                            ELSE <<calls + 1>>]
                    ELSE access_no
               /\ life' = IF r.res = "Ok" /\ f \notin DOMAIN node_store
                          THEN [life EXCEPT ![f] = "recorded"]
                          ELSE life
               /\ drain_store' = r.node_store
               /\ drained' = <<>>

SetEvictable ==
    \E f \in FrameIds, flag \in BOOLEAN :
        /\ ~panicked
        /\ \E r \in {set_evictable(node_store, current_size, current_timestamp, f, flag)} :
               /\ Apply(r)
               /\ ret' = Call("set_evictable", f, flag, r.res, NoFrame, life[f])
               /\ life' = IF r.res = "Ok"
                          THEN [life EXCEPT ![f] = IF flag THEN "released" ELSE "recorded"]
                          ELSE life
               /\ drain_store' = r.node_store
               /\ drained' = <<>>
               /\ UNCHANGED <<calls, access_no>>

Remove ==
    \E f \in FrameIds :
        /\ ~panicked
        /\ \E r \in {remove(node_store, current_size, current_timestamp, f)} :
               /\ Apply(r)
               /\ ret' = Call("remove", f, FALSE, r.res, NoFrame, life[f])
               /\ calls' = calls
               /\ access_no' = Forget(access_no, r.node_store, <<>>)
               /\ life' = Retire(life, r.node_store)
               /\ drain_store' = r.node_store
               /\ drained' = <<>>

Evict ==
    /\ ~panicked
    /\ \E best \in Scan(DOMAIN node_store, node_store, current_timestamp, None) :
           \E r \in {evict(node_store, current_size, current_timestamp, best)} :
               /\ Apply(r)
               /\ ret' = IF r.panicked
                         THEN Call("evict", NoFrame, FALSE, "Panic", NoFrame, "none")
                         ELSE IF IsSome(r.res)
                         THEN Call("evict", NoFrame, FALSE, "Some", Unwrap(r.res),
                                   life[Unwrap(r.res)])
                         ELSE Call("evict", NoFrame, FALSE, "None", NoFrame, "none")
               /\ calls' = calls
               /\ access_no' = Forget(access_no, r.node_store, <<>>)
               /\ life' = Retire(life, r.node_store)
               /\ drain_store' = drain_store
               /\ drained' = Drained(drained, IF IsSome(r.res) THEN Unwrap(r.res) ELSE NoFrame)

Size ==
    /\ ~panicked
    /\ pre' = Snapshot
    /\ ret' = Call("size", NoFrame, FALSE, "Ok", current_size, "none")
    /\ drain_store' = node_store
    /\ drained' = <<>>
    /\ UNCHANGED <<current_size, capacity, k, node_store, current_timestamp, u64_max, panicked,
                   calls, access_no, life>>

Next == RecordAccess \/ SetEvictable \/ Remove \/ Evict \/ Size

Spec == Init /\ [][Next]_vars

\* ------------------------------------------------------------------ claims
\* The claims are stated on the state after a call: `ret` is the call, `pre`
\* the replacer before it, the variables the replacer after it.
Tracked == DOMAIN node_store
EvictableFrames == {f \in Tracked : node_store[f].is_evictable}
PreTracked == DOMAIN pre.node_store
PreEvictable == {f \in PreTracked : pre.node_store[f].is_evictable}
\* the clock has been reset to 0 at least once
Overflowed == calls > u64_max

\* C1 - size consistency: whatever calls were made, no debug assertion and no
\* subtraction has failed, current_size is the number of tracked frames
\* whose flag is true, and size() returned that number.
C1_SizeConsistency ==
    /\ ~panicked
    /\ current_size >= 0
    /\ current_size = Cardinality(EvictableFrames)
    /\ ret.op = "size" => ret.value = Cardinality(EvictableFrames)

\* C1 witness: a call has just decremented the counter and frames are still counted.
C1_Witness ==
    /\ ret.op \in {"remove", "evict", "set_evictable"}
    /\ current_size = pre.current_size - 1
    /\ current_size >= 1

\* C2 - capacity bound: 0 <= evictable count <= tracked frames <= capacity.
C2_CapacityBound ==
    /\ 0 <= current_size
    /\ current_size <= Cardinality(Tracked)
    /\ Cardinality(Tracked) <= capacity

\* C2 witness: a full registry, every frame evictable, and the last call was a
\* record_access refused for lack of room.
C2_Witness ==
    /\ Cardinality(Tracked) = capacity
    /\ current_size = capacity
    /\ ret.op = "record_access"
    /\ ret.res = "ErrCapacity"

\* C3 as claimed: a record_access refused for lack of room leaves the tracked
\* frames, their histories and flags, the evictable count and the clock as
\* they were.
C3_AsClaimed ==
    (ret.op = "record_access" /\ ret.res = "ErrCapacity")
        => /\ node_store = pre.node_store
           /\ current_size = pre.current_size
           /\ current_timestamp = pre.current_timestamp

\* C3 amended: a record_access refused for lack of room leaves the tracked
\* frames, their histories and flags and the evictable count as they were;
\* the clock has advanced by one (or gone from its maximum to 0).
C3_RefusedAccessKeepsAllButClock ==
    (ret.op = "record_access" /\ ret.res = "ErrCapacity")
        => /\ node_store = pre.node_store
           /\ current_size = pre.current_size
           /\ current_timestamp =
                 IF pre.current_timestamp = u64_max THEN 0 ELSE pre.current_timestamp + 1

\* C3 witness: a refused record_access, with an evictable frame and a history
\* of k timestamps in the registry it left alone.
C3_Witness ==
    /\ ret.op = "record_access"
    /\ ret.res = "ErrCapacity"
    /\ \E f \in Tracked : node_store[f].is_evictable /\ Len(node_store[f].history) = k
    /\ k = MaxK

\* C4 - record_access(f) fails exactly when f is untracked and the registry
\* holds capacity frames; otherwise it succeeds and f is tracked afterwards.
C4_RecordAccessFailsIffNewAndFull ==
    ret.op = "record_access"
        => LET f == ret.frame_id IN
           /\ ret.res \in {"Ok", "ErrCapacity"}
           /\ ret.res = "ErrCapacity"
                <=> (f \notin PreTracked /\ Cardinality(PreTracked) = capacity)
           /\ ret.res = "Ok" => f \in Tracked

\* C4 witness: a tracked frame was accessed again with the registry full and
\* nothing evictable.
C4_Witness ==
    /\ ret.op = "record_access"
    /\ ret.res = "Ok"
    /\ ret.frame_id \in PreTracked
    /\ Cardinality(PreTracked) = capacity
    /\ current_size = 0

\* ---- evict: the frames it chose among, as they were before the call
PreHistory(f) == pre.node_store[f].history
\* evictable frames with fewer than k timestamps, and with k of them
PreCold == {f \in PreEvictable : Len(PreHistory(f)) < k}
PreWarm == {f \in PreEvictable : Len(PreHistory(f)) = k}
\* the most recent timestamp of f, the oldest kept one, and the numbers of the
\* record_access calls that stored them
PreLast(f) == PreHistory(f)[Len(PreHistory(f))]
PreKth(f) == PreHistory(f)[1]
PreLastCall(f) == pre.access_no[f][Len(pre.access_no[f])]
PreKthCall(f) == pre.access_no[f][1]
\* the K-distance of a warm frame: clock - kth_most_recent(), never below 0
PreDist(f) ==
    IF pre.current_timestamp >= PreKth(f) THEN pre.current_timestamp - PreKth(f) ELSE 0
SameKDistance(f, g) ==
    \/ f \in PreCold /\ g \in PreCold
    \/ f \in PreWarm /\ g \in PreWarm /\ PreDist(f) = PreDist(g)
LargerKDistance(f, g) ==
    \/ f \in PreCold /\ g \in PreWarm
    \/ f \in PreWarm /\ g \in PreWarm /\ PreDist(f) > PreDist(g)
\* f ranks above g in the order of spec section 4.2
RanksAbove(f, g) ==
    \/ LargerKDistance(f, g)
    \/ SameKDistance(f, g) /\ PreLast(f) < PreLast(g)
    \/ SameKDistance(f, g) /\ PreLast(f) = PreLast(g) /\ f < g
EvictReturnedSome == ret.op = "evict" /\ ret.res = "Some"
Victim == ret.value

\* C5 - cold before warm: when an evictable frame has fewer than k
\* timestamps, evict returns a frame with fewer than k timestamps.
C5_ColdBeforeWarm ==
    (ret.op = "evict" /\ PreCold # {}) => (ret.res = "Some" /\ Victim \in PreCold)

\* C5 witness: a cold frame was evicted although a warm evictable frame had
\* only older timestamps than the victim's.
C5_Witness ==
    /\ EvictReturnedSome
    /\ Victim \in PreCold
    /\ \E g \in PreWarm : PreLast(g) < PreLast(Victim)

\* C6 as claimed: among the evictable cold frames, evict returns the one whose
\* last record_access call came before the last record_access call of every
\* other evictable cold frame.
C6_AsClaimed ==
    (ret.op = "evict" /\ PreCold # {})
        => /\ ret.res = "Some"
           /\ Victim \in PreCold
           /\ \A g \in PreCold \ {Victim} : PreLastCall(Victim) < PreLastCall(g)

\* C6 amended: among the evictable cold frames, evict returns the one whose
\* most recent timestamp is smallest (the smaller frame id among equal ones);
\* while the clock has not overflowed, that is the frame whose last
\* record_access call came before that of every other evictable cold frame.
C6_OldestColdFirst ==
    (ret.op = "evict" /\ PreCold # {})
        => /\ ret.res = "Some"
           /\ Victim \in PreCold
           /\ \A g \in PreCold \ {Victim} :
                 /\ \/ PreLast(Victim) < PreLast(g)
                    \/ PreLast(Victim) = PreLast(g) /\ Victim < g
                 /\ ~Overflowed => PreLastCall(Victim) < PreLastCall(g)

\* C6 witness: before any overflow, the older of two evictable cold frames
\* was evicted, and it is the one with the larger frame id.
C6_Witness ==
    /\ EvictReturnedSome
    /\ ~Overflowed
    /\ Victim \in PreCold
    /\ \E g \in PreCold : g < Victim /\ PreLastCall(Victim) < PreLastCall(g)

\* C7 as claimed: when every evictable frame has k timestamps, evict returns
\* the frame whose K-th most recent access is the oldest, the one maximising
\* clock - kth_most_recent().
C7_AsClaimed ==
    (ret.op = "evict" /\ PreEvictable # {} /\ PreCold = {})
        => /\ ret.res = "Some"
           /\ Victim \in PreWarm
           /\ \A g \in PreWarm \ {Victim} :
                 /\ PreKthCall(Victim) < PreKthCall(g)
                 /\ pre.current_timestamp - PreKth(Victim)
                      >= pre.current_timestamp - PreKth(g)

\* C7 amended: when every evictable frame has k timestamps, evict returns a
\* frame maximising clock - kth_most_recent() taken as 0 when negative, ties
\* going to the smaller most-recent timestamp and then the smaller frame id;
\* while the clock has not overflowed, that is the frame whose K-th most
\* recent access is the oldest, with the strictly largest distance.
C7_WarmByKDistance ==
    (ret.op = "evict" /\ PreEvictable # {} /\ PreCold = {})
        => /\ ret.res = "Some"
           /\ Victim \in PreWarm
           /\ \A g \in PreWarm \ {Victim} :
                 /\ \/ PreDist(Victim) > PreDist(g)
                    \/ /\ PreDist(Victim) = PreDist(g)
                       /\ \/ PreLast(Victim) < PreLast(g)
                          \/ PreLast(Victim) = PreLast(g) /\ Victim < g
                 /\ ~Overflowed =>
                      /\ PreKthCall(Victim) < PreKthCall(g)
                      /\ pre.current_timestamp - PreKth(Victim)
                           > pre.current_timestamp - PreKth(g)

\* C7 witness: before any overflow and with k = 2, the victim is the warm
\* frame with the oldest K-th access although it was the last one accessed.
C7_Witness ==
    /\ EvictReturnedSome
    /\ ~Overflowed
    /\ k = 2
    /\ PreCold = {}
    /\ \E g \in PreWarm \ {Victim} :
          PreKth(Victim) < PreKth(g) /\ PreLast(Victim) > PreLast(g)

\* C8 - deterministic tie-break: of two evictable frames with the same
\* K-distance and the same most recent timestamp, no other evictable frame
\* ranking above them, evict returns the one with the smaller frame id.
C8_SmallerIdBreaksTie ==
    ret.op = "evict"
        => \A a, b \in PreEvictable :
             (/\ a < b
              /\ SameKDistance(a, b)
              /\ PreLast(a) = PreLast(b)
              /\ \A h \in PreEvictable \ {a, b} : ~RanksAbove(h, a))
             => (ret.res = "Some" /\ Victim = a)

\* C8 witness: the victim tied with another evictable frame on K-distance and
\* on the most recent timestamp.
C8_Witness ==
    /\ EvictReturnedSome
    /\ \E g \in PreEvictable \ {Victim} :
          SameKDistance(Victim, g) /\ PreLast(Victim) = PreLast(g)

\* C9 - pin blocks eviction: a frame evict returns was tracked with its
\* flag true just before the call.
C9_OnlyEvictableFramesAreEvicted ==
    EvictReturnedSome => (Victim \in PreTracked /\ pre.node_store[Victim].is_evictable)

\* C9 witness: evict passed over a pinned cold frame, older than the victim,
\* and returned a warm one.
C9_Witness ==
    /\ EvictReturnedSome
    /\ Victim \in PreWarm
    /\ \E g \in PreTracked \ PreEvictable :
          Len(PreHistory(g)) < k /\ PreLast(g) < PreLast(Victim)

\* C10 - empty eviction: evict returns None exactly when no tracked frame is
\* evictable, that is when size() is 0, and then it changes nothing.
C10_NoneIffNothingEvictable ==
    ret.op = "evict"
        => /\ ret.res \in {"Some", "None"}
           /\ ret.res = "None" <=> PreEvictable = {}
           /\ ret.res = "None" <=> pre.current_size = 0
           /\ ret.res = "None" =>
                /\ node_store = pre.node_store
                /\ current_size = pre.current_size
                /\ current_timestamp = pre.current_timestamp

\* C10 witness: evict returned None on a full registry of pinned frames.
C10_Witness ==
    /\ ret.op = "evict"
    /\ ret.res = "None"
    /\ Cardinality(PreTracked) = capacity
    /\ capacity = MaxCapacity

\* C11 - remove on a pinned frame: remove(f) on a frame tracked with its flag
\* false fails with the not-evictable error; the frame stays tracked with its
\* history and flag, and the other frames, the evictable count and the clock
\* are as they were.
C11_RemovePinnedFails ==
    (/\ ret.op = "remove"
     /\ ret.frame_id \in PreTracked
     /\ ~pre.node_store[ret.frame_id].is_evictable)
        => /\ ret.res = "ErrNotEvictable"
           /\ ret.frame_id \in Tracked
           /\ node_store = pre.node_store
           /\ current_size = pre.current_size
           /\ current_timestamp = pre.current_timestamp

\* C11 witness: remove was refused on a pinned frame holding k = MaxK
\* timestamps, next to an evictable frame.
C11_Witness ==
    /\ ret.op = "remove"
    /\ ret.res = "ErrNotEvictable"
    /\ k = MaxK
    /\ Len(node_store[ret.frame_id].history) = k
    /\ current_size >= 1

\* C12 - idempotent remove: remove(f) on an untracked frame id returns success
\* and leaves the whole replacer as it was; a remove(f) that succeeded on a
\* tracked frame found it evictable and leaves f untracked, so that a second
\* remove(f) right after it is a call on an untracked id: it succeeds and
\* changes nothing.
C12_RemoveUntrackedIsNoOp ==
    ret.op = "remove"
        => LET f == ret.frame_id IN
           /\ f \notin PreTracked =>
                /\ ret.res = "Ok"
                /\ node_store = pre.node_store
                /\ current_size = pre.current_size
                /\ current_timestamp = pre.current_timestamp
           /\ (f \in PreTracked /\ pre.node_store[f].is_evictable) => ret.res = "Ok"
           /\ ret.res = "Ok" => f \notin Tracked

\* C12 witness: remove succeeded on an id nothing is tracked under, after the
\* clock has run, next to a tracked frame that the call left alone.
C12_Witness ==
    /\ ret.op = "remove"
    /\ ret.res = "Ok"
    /\ ret.frame_id \notin PreTracked
    /\ ret.frame_id = 0
    /\ Tracked = FrameIds \ {0}
    /\ capacity = 1
    /\ current_timestamp >= 2

\* C13 - set_evictable on an untracked frame: whatever the flag, the call
\* fails with the not-found error and leaves the replacer as it was: no entry
\* is created and the evictable count does not move.
C13_SetEvictableUntrackedFails ==
    (ret.op = "set_evictable" /\ ret.frame_id \notin PreTracked)
        => /\ ret.res = "ErrNotFound"
           /\ ret.frame_id \notin Tracked
           /\ node_store = pre.node_store
           /\ current_size = pre.current_size
           /\ current_timestamp = pre.current_timestamp

\* C13 witness: set_evictable(f, true) was refused for an untracked f while
\* there was room for one more frame and an evictable frame was tracked.
C13_Witness ==
    /\ ret.op = "set_evictable"
    /\ ret.flag
    /\ ret.res = "ErrNotFound"
    /\ Cardinality(Tracked) < capacity
    /\ current_size >= 1

\* C14 - set_evictable transitions: on a tracked frame set_evictable(f, flag)
\* succeeds and stores flag; the evictable count moves by +1 on false->true,
\* by -1 on true->false and not at all when the flag was already flag; no
\* history, no other frame and not the clock is touched; and the same call
\* made again on the state it left would leave that state as it is.
C14_SetEvictableTransitions ==
    (ret.op = "set_evictable" /\ ret.frame_id \in PreTracked)
        => LET f == ret.frame_id
               was == pre.node_store[f].is_evictable
           IN  /\ ret.res = "Ok"
               /\ Tracked = PreTracked
               /\ node_store[f].is_evictable = ret.flag
               /\ node_store[f].history = pre.node_store[f].history
               /\ \A g \in Tracked \ {f} : node_store[g] = pre.node_store[g]
               /\ current_timestamp = pre.current_timestamp
               /\ (~was /\ ret.flag) => current_size = pre.current_size + 1
               /\ (was /\ ~ret.flag) => current_size = pre.current_size - 1
               /\ (was = ret.flag) =>
                     (current_size = pre.current_size /\ node_store = pre.node_store)
               /\ set_evictable(node_store, current_size, current_timestamp, f, ret.flag)
                     = Outcome(node_store, current_size, current_timestamp, FALSE, "Ok")

\* C14 witness: set_evictable(f, false) pinned an evictable frame holding
\* k = MaxK timestamps and left another frame evictable.
C14_Witness ==
    /\ ret.op = "set_evictable"
    /\ ret.res = "Ok"
    /\ ~ret.flag
    /\ pre.node_store[ret.frame_id].is_evictable
    /\ k = MaxK
    /\ Len(node_store[ret.frame_id].history) = k
    /\ current_size = 1
    /\ pre.current_size = 2

\* C15 - drain to empty: evict calls made one after the other, nothing else in
\* between, return exactly the frames that were evictable when the run began,
\* each once, and absent only after the last of them and on every call from
\* then on; the frames that were pinned stay tracked as they were; once all
\* have been returned the evictable count is 0, and the registry is empty
\* when every tracked frame was evictable.
C15_DrainToEmpty ==
    LET start == {f \in DOMAIN drain_store : drain_store[f].is_evictable}
        n == Len(drained)
        victims == {drained[i] : i \in 1..n} \ {NoFrame}
        absent == n > 0 /\ drained[n] = NoFrame
    IN  /\ \A i \in 1..n : drained[i] = NoFrame => i = n
        /\ \A i, j \in 1..n : i < j => drained[i] # drained[j]
        /\ victims \subseteq start
        /\ absent <=> (n = Cardinality(start) + 1)
        /\ absent => victims = start
        /\ Tracked = DOMAIN drain_store \ victims
        /\ \A f \in Tracked : node_store[f] = drain_store[f]
        /\ victims = start => current_size = 0
        /\ (victims = start /\ start = DOMAIN drain_store) => node_store = << >>

\* C15 witness: MaxCapacity frames, all evictable, were returned by as many
\* evict calls, the next call returned absent, and the registry is empty.
C15_Witness ==
    /\ Len(drained) = MaxCapacity + 1
    /\ drained[MaxCapacity + 1] = NoFrame
    /\ Cardinality(DOMAIN drain_store) = MaxCapacity
    /\ node_store = << >>
    /\ current_size = 0
    /\ ret.op = "evict"
    /\ ret.res = "None"

\* C16 - effect of a successful evict: when evict returns Some(v), the
\* replacer is what remove(v) makes of the replacer before the call, and that
\* remove succeeds: v is no longer tracked, the evictable count is one less,
\* every other tracked frame keeps its history and flag, the clock has not
\* moved; no evict call fails in its internal removal.
C16_EvictIsRemoveOfVictim ==
    /\ ret.op = "evict" => (ret.res # "Panic" /\ ~panicked)
    /\ EvictReturnedSome
         => LET r == remove(pre.node_store, pre.current_size, pre.current_timestamp, Victim)
            IN  /\ r.res = "Ok"
                /\ ~r.panicked
                /\ node_store = r.node_store
                /\ current_size = r.current_size
                /\ current_timestamp = r.current_timestamp
                /\ Victim \in PreTracked
                /\ Tracked = PreTracked \ {Victim}
                /\ current_size = pre.current_size - 1
                /\ \A g \in Tracked : node_store[g] = pre.node_store[g]
                /\ current_timestamp = pre.current_timestamp

\* C16 witness: evict returned a frame and left behind an evictable frame
\* holding k = MaxK timestamps, the clock being past 0.
C16_Witness ==
    /\ EvictReturnedSome
    /\ k = MaxK
    /\ current_timestamp > 0
    /\ \E g \in Tracked : node_store[g].is_evictable /\ Len(node_store[g].history) = k

\* the clock value record_access call number c was given: the clock starts at
\* 0, every call adds one, and the maximum is followed by 0
ClockAt(c) == c % (u64_max + 1)

\* C17 - bounded history window: access_no[f] holding the numbers of the last
\* min(n, k) of the n >= 1 successful record_access calls on f since f was
\* created, the stored history of a tracked f is the clock values of exactly
\* those calls, oldest first; its length is between 1 and k; and kth_ts is
\* defined exactly when n >= k, that is when k call numbers are kept.
C17_BoundedHistoryWindow ==
    /\ \A f \in FrameIds \ Tracked : access_no[f] = << >>
    /\ \A f \in Tracked :
          LET h == node_store[f].history
              a == access_no[f]
          IN  /\ Len(a) >= 1
              /\ Len(h) = Len(a)
              /\ \A i \in 1..Len(h) : h[i] = ClockAt(a[i])
              /\ 1 <= Len(h)
              /\ Len(h) <= k
              /\ node_store[f].k = k
              /\ IsSome(kth_ts(node_store[f])) <=> (Len(a) = k)
              /\ IsSome(kth_ts(node_store[f])) => Unwrap(kth_ts(node_store[f])) = ClockAt(a[1])
              /\ last_ts(node_store[f]) = Some(ClockAt(a[Len(a)]))

\* C17 witness: a frame that already held k = MaxK timestamps was accessed
\* again: its oldest timestamp went and the new one came last.
C17_Witness ==
    /\ ret.op = "record_access"
    /\ ret.res = "Ok"
    /\ k = MaxK
    /\ ret.frame_id \in PreTracked
    /\ Len(PreHistory(ret.frame_id)) = k
    /\ node_store[ret.frame_id].history
         = Append(Tail(PreHistory(ret.frame_id)), current_timestamp)

\* every stored history grows strictly from front to back, so that last_ts is
\* its largest timestamp and kth_ts, when defined, its smallest
HistoriesIncrease ==
    \A f \in Tracked :
        LET h == node_store[f].history IN
        /\ \A i, j \in 1..Len(h) : i < j => h[i] < h[j]
        /\ \A i \in 1..Len(h) : h[i] <= Unwrap(last_ts(node_store[f]))
        /\ IsSome(kth_ts(node_store[f]))
             => \A i \in 1..Len(h) : Unwrap(kth_ts(node_store[f])) <= h[i]

\* C18 as claimed: in every reachable state, those after the clock has hit
\* its maximum and been reset to 0 included, every tracked frame's timestamps
\* are strictly increasing from oldest to newest, the back being the largest
\* and the front the smallest.
C18_AsClaimed == HistoriesIncrease

\* C18 amended: as long as the clock has not been reset to 0, every tracked
\* frame's timestamps are strictly increasing from oldest to newest, the back
\* being the largest and the front the smallest.
C18_IncreasingUntilOverflow == ~Overflowed => HistoriesIncrease

\* C18 witness: before any reset, two frames accessed in turn each hold
\* k = MaxK timestamps.
C18_Witness ==
    /\ ~Overflowed
    /\ k = MaxK
    /\ k >= 2
    /\ Cardinality({f \in Tracked : Len(node_store[f].history) = k}) >= 2
    /\ \E f, g \in Tracked :
          /\ node_store[f].history[1] < node_store[g].history[1]
          /\ node_store[g].history[1] < node_store[f].history[k]

\* C19 - re-tracking after eviction: a frame evict has returned, or remove
\* has taken out, is untracked; a record_access that creates an entry, for the
\* first time or again, leaves it with its flag false and the one timestamp
\* of that call; a flag is true only while the caller's last set_evictable on
\* the entry said true; so the frame evict returns was created by a
\* record_access, and then released by a set_evictable(_, true), since it was
\* last untracked.
C19_RetrackingAfterEviction ==
    /\ EvictReturnedSome => (Victim \notin Tracked /\ life[Victim] = "gone")
    /\ (ret.op = "remove" /\ ret.res = "Ok") => ret.frame_id \notin Tracked
    /\ \A f \in FrameIds : f \in Tracked <=> life[f] \in {"recorded", "released"}
    /\ \A f \in Tracked : node_store[f].is_evictable <=> life[f] = "released"
    /\ (ret.op = "record_access" /\ ret.res = "Ok" /\ ret.frame_id \notin PreTracked)
         => /\ ret.was \in {"untracked", "gone"}
            /\ ~node_store[ret.frame_id].is_evictable
            /\ node_store[ret.frame_id].history = <<current_timestamp>>
            /\ life[ret.frame_id] = "recorded"
    /\ ret.op # "set_evictable"
         => \A f \in Tracked \cap PreTracked :
               node_store[f].is_evictable = pre.node_store[f].is_evictable
    /\ EvictReturnedSome => ret.was = "released"

\* C19 witness: record_access created an entry again for a frame that had
\* been evicted or removed, k being MaxK and another frame being evictable.
C19_Witness ==
    /\ ret.op = "record_access"
    /\ ret.res = "Ok"
    /\ ret.was = "gone"
    /\ k = MaxK
    /\ Len(node_store[ret.frame_id].history) = 1
    /\ current_size >= 1

\* C20 - evict is a function of the state: on the keys of the evictable
\* frames of every reachable state `better` is a strict total order; and for
\* every evict call, every order in which its loop may have visited the
\* registry ends with the same `best`: a frame exactly when one was evictable,
\* then the evictable frame whose key is better than every other, and the
\* frame the call returned.
C20_EvictIsAFunctionOfTheState ==
    /\ \A key \in {[f \in EvictableFrames |-> KeyOf(f, node_store[f], current_timestamp)]} :
          /\ \A f \in EvictableFrames : ~better(key[f], key[f])
          /\ \A f, g \in EvictableFrames :
                f # g => (better(key[f], key[g]) <=> ~better(key[g], key[f]))
          /\ \A f, g, h \in EvictableFrames :
                (better(key[f], key[g]) /\ better(key[g], key[h])) => better(key[f], key[h])
    /\ ret.op = "evict" =>
          \A bests \in {Scan(PreTracked, pre.node_store, pre.current_timestamp, None)} :
          \A key \in {[f \in PreEvictable |->
                         KeyOf(f, pre.node_store[f], pre.current_timestamp)]} :
              /\ Cardinality(bests) = 1
              /\ \A b \in bests :
                    /\ IsSome(b) <=> PreEvictable # {}
                    /\ IsSome(b) <=> ret.res = "Some"
                    /\ IsSome(b) =>
                         /\ Unwrap(b)[2] \in PreEvictable
                         /\ Unwrap(b)[2] = Victim
                         /\ Unwrap(b)[1] = key[Victim]
                         /\ \A g \in PreEvictable \ {Victim} : better(key[Victim], key[g])

\* C20 witness: after the clock was reset, evict chose among MaxCapacity
\* evictable frames, two of them with the same most recent timestamp, and
\* returned one that is not the smallest frame id.
C20_Witness ==
    /\ EvictReturnedSome
    /\ Overflowed
    /\ Cardinality(PreEvictable) = MaxCapacity
    /\ \E f, g \in PreEvictable : f # g /\ PreLast(f) = PreLast(g)
    /\ \E g \in PreEvictable : g < Victim

====
